---- MODULE Spec2Model ----
(***************************************************************************)
(* The trust-score engine and the validation/approval workflow of the      *)
(* PrecogX backend (app/core/trust/calculator.py,                          *)
(* app/core/validation/validator.py, app/core/validation/slack.py and the  *)
(* endpoints of app/api/endpoints/validation.py).                          *)
(*                                                                         *)
(* Scores are fixed-point numbers: Scale stands for 1.0, divisions round   *)
(* down.  The clock counts days, the unit of timedelta.days.               *)
(***************************************************************************)
EXTENDS Integers, Sequences, FiniteSets, TLC

\* ------------------------------------------------------------------ bounds
\* Largest number of rows of the interactions table.
MaxInteractions == 2
\* Last day the clock reaches (the clock starts at day 0).
MaxNow == 1
\* Largest number of interactions one calculator call is given.
MaxRecords == 2
\* Age in days of the oldest interaction a calculator call is given.
MaxAge == 14

\* The longest interactions list a telemetry dictionary carries.
MaxTelemetryInteractions == 2
\* The number of tool calls a callback handler sees.
MaxToolCalls == 3
\* The number of send_telemetry calls a callback handler makes.
MaxSends == 3
\* The deepest nesting of chains.
MaxDepth == 2
\* The number of chains and sub-chains that start.
MaxChains == 3
\* The number of tool calls of one chain.
MaxChainTools == 2
\* The number of texts a chain emits.
MaxTexts == 2

\* ---------------------------------------------------------------- constants
Scale == 1000
trust_threshold == 700
time_decay_half_life == 7
anomaly_threshold == 500
weights == [risk |-> 400, consistency |-> 200, behavior |-> 200, detection |-> 200]

\* Python's None for approved_by, approval_timestamp and interaction_id.
NoOne == ""
NoTime == -1
NoId == 0

\* ---------------------------------------------------------------- the store
Tenants == {1, 2}
\* Rows of the agents table: primary key id, public agent_id, owning tenant.
AgentRows ==
    { [id |-> 1, agent_id |-> "a1", tenant_id |-> 1],
      [id |-> 2, agent_id |-> "a2", tenant_id |-> 2] }
\* agent_id values a request can carry: each names an agent of one tenant and
\* no agent of the other.
AgentIds == {"a1", "a2"}
Approvers == {"ann", "bob"}

\* One stored interaction.  agent_id is the foreign key Interaction.agent_id;
\* key 3 is the key of a deleted agent (an orphaned row).  risk_score is fixed
\* point, timestamp a day.
Row(agent, tenant, risk_score, approval_status) ==
    [agent_id |-> agent, tenant_id |-> tenant,
     risk_score |-> risk_score, behavior_flags |-> 0, detections |-> 0, timestamp |-> 0,
     approval_status |-> approval_status, approved_by |-> NoOne,
     approval_timestamp |-> NoTime]

\* Rows the telemetry pipeline can have stored before the workflow runs:
\* unresolved, with approved_by and approval_timestamp unset.
InitRows ==
    { Row(1, 1, 750, "pending"), Row(1, 1, 0, "none"), Row(3, 1, 750, "pending") }

VARIABLES
    interactions,   \* the interactions table: row i has Interaction.id = i
    now,            \* datetime.utcnow(), in days
    call,           \* the request being answered: operation and arguments
    ret,            \* what the request returns
    sent,           \* the notifications the request posted to Slack
    procs,          \* the handle_approval requests two workers serve at once
    calc,           \* one TrustScoreCalculator call: its input and its result
    telemetry,      \* one PrecogXClient.send_telemetry call: its input and its result
    handler,        \* the client-based PrecogXCallbackHandler
    chain_handler   \* the emitter-based PrecogXCallbackHandler

vars == <<interactions, now, call, ret, sent, procs, calc, telemetry, handler,
         chain_handler>>

Ids == 1..Len(interactions)

\* ------------------------------------------------------------ the calculator
RECURSIVE SumSeq(_)
SumSeq(s) == IF s = <<>> THEN 0 ELSE Head(s) + SumSeq(Tail(s))

Min(a, b) == IF a < b THEN a ELSE b
Max(a, b) == IF a > b THEN a ELSE b

\* 0.5 ** (k / 7) for k = 0..6, rounded to the fixed point.
HalfLifeDecay == <<1000, 906, 820, 743, 673, 610, 552>>

\* decay = 0.5 ** (days_ago / self.time_decay_half_life)
Decay(days_ago) ==
    LET q == days_ago \div time_decay_half_life
        r == days_ago % time_decay_half_life
    IN  IF q >= 0 THEN HalfLifeDecay[r + 1] \div (2 ^ q)
                  ELSE HalfLifeDecay[r + 1] * (2 ^ (0 - q))

\* The query of _get_interactions selects from interactions and agents with no
\* join condition between them: every row of interactions is returned once for
\* the one agents row that matches (Agent.id, Agent.tenant_id), and none when
\* the agent is not of the tenant.
get_interactions(store, agent, tenant_id) ==
    IF agent.tenant_id = tenant_id THEN store ELSE <<>>

\* _calculate_risk_score: the mean of (1.0 - risk_score) * decay.
calculate_risk_score_decay_only(rows, t) ==
    LET scores == [k \in 1..Len(rows) |-> Decay(t - rows[k].timestamp)]
    IN  IF rows # <<>> THEN SumSeq(scores) \div Len(rows) ELSE Scale

calculate_risk_score(rows, t) ==
    LET scores == [k \in 1..Len(rows) |->
                     ((Scale - rows[k].risk_score) * Decay(t - rows[k].timestamp)) \div Scale]
    IN  IF rows # <<>> THEN SumSeq(scores) \div Len(rows) ELSE Scale

calculate_consistency_score(rows) ==
    IF rows = <<>> THEN Scale
    ELSE LET n == Len(rows)
             mean == SumSeq([k \in 1..n |-> rows[k].risk_score]) \div n
             variance ==
                 SumSeq([k \in 1..n |->
                     ((rows[k].risk_score - mean) * (rows[k].risk_score - mean)) \div Scale]) \div n
         IN  Max(0, Scale - variance)

calculate_behavior_score(rows, t) ==
    LET scores == [k \in 1..Len(rows) |->
                     ((Scale - Min(Scale, rows[k].behavior_flags * 200))
                         * Decay(t - rows[k].timestamp)) \div Scale]
    IN  IF rows # <<>> THEN SumSeq(scores) \div Len(rows) ELSE Scale

calculate_detection_score(rows, t) ==
    LET scores == [k \in 1..Len(rows) |->
                     ((Scale - Min(Scale, rows[k].detections * 250))
                         * Decay(t - rows[k].timestamp)) \div Scale]
    IN  IF rows # <<>> THEN SumSeq(scores) \div Len(rows) ELSE Scale

\* Whether two consecutive risk scores are an anomaly:
\* abs(risk - prev) > self.anomaly_threshold
Abs(x) == IF x < 0 THEN 0 - x ELSE x

IsAnomaly_at_threshold(risk, prev) == Abs(risk - prev) >= anomaly_threshold

IsAnomaly(risk, prev) == Abs(risk - prev) > anomaly_threshold

\* The entry _detect_anomalies appends for row k (prev is the risk score of
\* row k - 1).
AnomalyEntry(rows, k) ==
    [timestamp |-> rows[k].timestamp, risk_score |-> rows[k].risk_score,
     prev_risk_score |-> rows[k - 1].risk_score,
     delta |-> rows[k].risk_score - rows[k - 1].risk_score]

\* _detect_anomalies over rows from..Len(rows), in the order of the query.
RECURSIVE detect_anomalies(_, _)
detect_anomalies(rows, from) ==
    IF from > Len(rows) THEN <<>>
    ELSE (IF from > 1 /\ IsAnomaly(rows[from].risk_score, rows[from - 1].risk_score)
          THEN << AnomalyEntry(rows, from) >> ELSE <<>>)
         \o detect_anomalies(rows, from + 1)

\* _identify_factors over rows from..Len(rows): up to three notes a row.
RECURSIVE identify_factors(_, _)
identify_factors(rows, from) ==
    IF from > Len(rows) THEN <<>>
    ELSE (IF rows[from].risk_score > 700
          THEN << <<"High risk", rows[from].timestamp>> >> ELSE <<>>)
         \o (IF rows[from].detections > 0
             THEN << <<"Security detections", rows[from].timestamp>> >> ELSE <<>>)
         \o (IF rows[from].behavior_flags > 0
             THEN << <<"Behavior flags", rows[from].timestamp>> >> ELSE <<>>)
         \o identify_factors(rows, from + 1)

\* math.exp(-k / 30) for k = 0..29, rounded to the fixed point.
ExpDecay ==
    <<1000, 967, 936, 905, 875, 846, 819, 792, 766, 741, 717, 693, 670, 648, 627,
      607, 587, 567, 549, 531, 513, 497, 480, 465, 449, 435, 420, 407, 393, 380>>

\* math.exp(-days_since / 30); 368 and 2718 are 1/e and e.
RECURSIVE Recency_growing(_)
Recency_growing(days_since) ==
    IF days_since > 0 THEN (Recency_growing(days_since - 30) * 2718) \div Scale
    ELSE IF days_since <= -30 THEN (Recency_growing(days_since + 30) * 368) \div Scale
    ELSE ExpDecay[1 - days_since]

RECURSIVE Recency(_)
Recency(days_since) ==
    IF days_since >= 30 THEN (Recency(days_since - 30) * 368) \div Scale
    ELSE IF days_since < 0 THEN (Recency(days_since + 30) * 2718) \div Scale
    ELSE ExpDecay[days_since + 1]

\* max(i.timestamp for i in interactions)
RECURSIVE MostRecent(_)
MostRecent(rows) ==
    IF Len(rows) = 1 THEN rows[1].timestamp
    ELSE Max(rows[1].timestamp, MostRecent(Tail(rows)))

\* confidence = min(1.0, len(interactions) / 10), times the recency factor.
Confidence(rows, t) ==
    (Min(Scale, (Len(rows) * Scale) \div 10) * Recency(t - MostRecent(rows))) \div Scale

\* overall_score = max(0.0, min(1.0, overall_score))
Clamp_none(x) == x

Clamp(x) == Max(0, Min(Scale, x))

\* What calculate_trust_score returns for no interactions.
EmptyScore_with_breakdown ==
    [overall_score |-> Scale, confidence |-> 0,
     breakdown |-> << <<"risk", Scale>>, <<"consistency", Scale>>,
                      <<"behavior", Scale>>, <<"detection", Scale>> >>,
     factors |-> <<>>, anomalies |-> <<>>, interactions_analyzed |-> 0]

EmptyScore ==
    [overall_score |-> Scale, confidence |-> 0, breakdown |-> <<>>,
     factors |-> <<>>, anomalies |-> <<>>, interactions_analyzed |-> 0]

\* The weighted sum of calculate_trust_score, clamped (calculator.py:47-54);
\* 1.0 for no interactions.  clock[1..3] are the readings of
\* datetime.utcnow() taken by the risk, behavior and detection factors.
OverallScore(rows, w, clock) ==
    IF rows = <<>> THEN Scale
    ELSE Clamp((w.risk * calculate_risk_score(rows, clock[1])
                + w.consistency * calculate_consistency_score(rows)
                + w.behavior * calculate_behavior_score(rows, clock[2])
                + w.detection * calculate_detection_score(rows, clock[3])) \div Scale)

\* The body of calculate_trust_score on the rows _get_interactions returned,
\* under the weights w.  clock[4] is the fourth reading of datetime.utcnow(),
\* taken by the confidence.  breakdown lists the dict's items in insertion
\* order.
TrustScore(rows, w, clock) ==
    IF rows = <<>>
    THEN EmptyScore
    ELSE [overall_score |-> OverallScore(rows, w, clock),
          confidence |-> Confidence(rows, clock[4]),
          breakdown |-> << <<"risk", calculate_risk_score(rows, clock[1])>>,
                           <<"consistency", calculate_consistency_score(rows)>>,
                           <<"behavior", calculate_behavior_score(rows, clock[2])>>,
                           <<"detection", calculate_detection_score(rows, clock[3])>> >>,
          factors |-> identify_factors(rows, 1),
          anomalies |-> detect_anomalies(rows, 1),
          interactions_analyzed |-> Len(rows)]

\* TrustScoreCalculator(db, agent, tenant_id).calculate_trust_score(), with
\* the default weights: the two entries of the result the workflow reads.
calculate_trust_score(store, agent, tenant_id, clock) ==
    LET rows == get_interactions(store, agent, tenant_id)
    IN  [overall_score |-> OverallScore(rows, weights, clock),
         interactions_analyzed |-> Len(rows)]

\* The readings of the clock one request can take: n readings, a day passing
\* before the first reading, between two readings, or not at all (and never
\* past MaxNow).
Readings(n) ==
    { [j \in 1..n |-> IF j >= k THEN now + 1 ELSE now] :
        k \in IF now < MaxNow THEN 1..(n + 1) ELSE {n + 1} }

\* ------------------------------------------------------------- the notifier
\* send_trust_score_alert posts one message; the Approve/Reject buttons are
\* added when the score is below the literal 0.7.  delivered is what the
\* method returns (False when the post fails).
send_trust_score_alert_with_actions(agent, trust_score, interaction_id, delivered) ==
    [kind |-> "alert", agent |-> agent.id, interaction_id |-> interaction_id,
     approved |-> FALSE, approver |-> NoOne,
     actions |-> TRUE, delivered |-> delivered]

send_trust_score_alert(agent, trust_score, interaction_id, delivered) ==
    [kind |-> "alert", agent |-> agent.id, interaction_id |-> interaction_id,
     approved |-> FALSE, approver |-> NoOne,
     actions |-> trust_score.overall_score < 700, delivered |-> delivered]

\* send_approval_notification posts one message.
send_approval_notification(agent, interaction_id, approved, approver, delivered) ==
    [kind |-> "resolution", agent |-> agent.id, interaction_id |-> interaction_id,
     approved |-> approved, approver |-> approver,
     actions |-> FALSE, delivered |-> delivered]

\* try: requests.post(...); response.raise_for_status(); return True
\* except Exception: return False -- whether a post that fails (delivered is
\* false) raises out of the notifier: the handler catches every Exception.
PostFailureRaises_uncaught(delivered) == ~delivered

PostFailureRaises(delivered) == FALSE

\* ------------------------------------------------------------- the requests
NoScore == -1
Resolved == {"approved", "rejected"}
\* What a request that loaded no interaction read of it.
NoRow == <<"", NoOne>>

\* The last request: the operation, the tenant of the ValidationLayer, the
\* arguments, and (before) the approval_status and approved_by of the
\* interaction handle_approval loaded, as they were when it loaded it (for
\* get_trust_score, its time_window).
Request(op, tenant, agent_id, interaction_id, flag, approver, before) ==
    [op |-> op, tenant |-> tenant, agent_id |-> agent_id,
     interaction_id |-> interaction_id, flag |-> flag, approver |-> approver,
     before |-> before]

Reply(status, requires_approval, overall_score, interaction_id, timestamp, items) ==
    [status |-> status, requires_approval |-> requires_approval,
     overall_score |-> overall_score, interaction_id |-> interaction_id,
     timestamp |-> timestamp, items |-> items]

\* db.query(Agent).filter(Agent.agent_id == agent_id, Agent.tenant_id == tenant.id)
FindAgent_any_tenant(agent_id, tenant) ==
    { a \in AgentRows : a.agent_id = agent_id }

FindAgent(agent_id, tenant) ==
    { a \in AgentRows : a.agent_id = agent_id /\ a.tenant_id = tenant }

\* db.query(Interaction).filter(Interaction.id == interaction_id,
\*     Interaction.agent_id == agent.id, Interaction.tenant_id == tenant.id)
FindInteraction_by_id_only(store, interaction_id, agent, tenant) ==
    { i \in 1..Len(store) : i = interaction_id }

FindInteraction(store, interaction_id, agent, tenant) ==
    { i \in 1..Len(store) : /\ i = interaction_id
                            /\ store[i].agent_id = agent.id
                            /\ store[i].tenant_id = tenant }

\* The interactions the validate endpoint can hand to validate_interaction for
\* an agent: None, or a row of that agent and of its tenant.
OwnInteractions(store, agent) ==
    {NoId} \cup { i \in 1..Len(store) :
                    FindInteraction(store, i, agent, agent.tenant_id) # {} }

\* requires_approval = force_approval or trust_score["overall_score"] < self.trust_threshold
RequiresApproval_le(force_approval, trust_score) ==
    force_approval \/ trust_score.overall_score <= trust_threshold

RequiresApproval(force_approval, trust_score) ==
    force_approval \/ trust_score.overall_score < trust_threshold

\* The notifications of validate_interaction: the alert, in the branch of
\* requires_approval only.
ScoreAlerts_always(requires_approval, alert) == << alert >>

ScoreAlerts(requires_approval, alert) ==
    IF requires_approval THEN << alert >> ELSE <<>>

\* The interactions table after validate_interaction: neither branch assigns
\* a column or commits, the table is as it was.
ValidationWrites_marks_pending(store, interaction_id, requires_approval) ==
    [i \in 1..Len(store) |->
        IF i = interaction_id /\ requires_approval
        THEN [store[i] EXCEPT !.approval_status = "pending"] ELSE store[i]]

ValidationWrites(store, interaction_id, requires_approval) == store

\* The request ended with an exception instead of a return value.
Raised == Reply("exception", FALSE, NoScore, NoId, NoTime, <<>>)

\* No request is being answered.
NoCall == Request("none", 1, "", NoId, FALSE, NoOne, NoRow)
NoReply == Reply("none", FALSE, NoScore, NoId, NoTime, <<>>)
Idle == call = NoCall

\* ValidationLayer(db, tenant).validate_interaction(agent, interaction,
\* force_approval), as the validate endpoint calls it: agent is an agent of the
\* tenant, and interaction is None or one of its interactions.
validate_interaction(agent, interaction_id, force_approval) ==
    \E clock \in Readings(4), delivered \in BOOLEAN :
      LET tenant == agent.tenant_id
          trust_score == calculate_trust_score(interactions, agent, tenant, clock)
          requires_approval == RequiresApproval(force_approval, trust_score)
          raised == requires_approval /\ PostFailureRaises(delivered)
      IN  /\ call' = Request("validate_interaction", tenant, agent.agent_id,
                             interaction_id, force_approval, NoOne, NoRow)
          /\ now' = clock[4]
          /\ interactions' = ValidationWrites(interactions, interaction_id,
                                               requires_approval)
          /\ sent' = ScoreAlerts(requires_approval,
                                 send_trust_score_alert(agent, trust_score,
                                                        interaction_id, delivered))
          /\ ret' = IF raised THEN Raised
                     ELSE Reply(IF requires_approval THEN "pending_approval"
                                                     ELSE "approved",
                                requires_approval, trust_score.overall_score,
                                interaction_id, NoTime, <<>>)

\* "approved" if approved else "rejected"
Decision_reopen(approved) == IF approved THEN "approved" ELSE "pending"

Decision(approved) == IF approved THEN "approved" ELSE "rejected"

\* The write of handle_approval to the interaction it found.
Resolve_first_wins(row, approved, approver, t) ==
    IF row.approval_status \in Resolved THEN row
    ELSE [row EXCEPT !.approval_status = Decision(approved),
                     !.approved_by = approver,
                     !.approval_timestamp = t]

Resolve(row, approved, approver, t) ==
    [row EXCEPT !.approval_status = Decision(approved),
                !.approved_by = approver,
                !.approval_timestamp = t]

\* Whether handle_approval posts its notification, given the rows (hit) its
\* interaction query found: the call is unconditional.
NotifiesResolution_found_only(store, hit) == hit # {}

NotifiesResolution_once(store, hit) ==
    \A i \in hit : store[i].approval_status \notin Resolved

NotifiesResolution(store, hit) == TRUE

\* POST /agents/{agent_id}/approve: ValidationLayer.handle_approval.  clock[1]
\* is the approval_timestamp written, clock[2] the timestamp returned.
handle_approval(tenant, agent_id, interaction_id, approved, approver) ==
    LET found == FindAgent(agent_id, tenant)
    IN  IF found = {}
           THEN /\ call' = Request("handle_approval", tenant, agent_id, interaction_id,
                                   approved, approver, NoRow)
                /\ ret' = Reply("error", FALSE, NoScore, NoId, NoTime, <<>>)
                /\ sent' = <<>>
                /\ UNCHANGED <<interactions, now>>
           ELSE LET agent == CHOOSE a \in found : TRUE
                    hit == IF interaction_id # NoId
                           THEN FindInteraction(interactions, interaction_id, agent, tenant)
                           ELSE {}
                IN  \E clock \in Readings(2), delivered \in BOOLEAN :
                      /\ call' = Request("handle_approval", tenant, agent_id,
                                         interaction_id, approved, approver,
                                         IF hit = {} THEN NoRow
                                         ELSE << interactions[interaction_id].approval_status,
                                                 interactions[interaction_id].approved_by >>)
                      /\ sent' = IF NotifiesResolution(interactions, hit)
                                 THEN << send_approval_notification(
                                           agent, IF hit = {} THEN NoId ELSE interaction_id,
                                           approved, approver, delivered) >>
                                 ELSE <<>>
                      /\ interactions' =
                            [i \in 1..Len(interactions) |->
                                IF i \in hit /\ ~PostFailureRaises(delivered)
                                THEN Resolve(interactions[i], approved, approver, clock[1])
                                ELSE interactions[i]]
                      /\ ret' = IF PostFailureRaises(delivered) THEN Raised
                                 ELSE Reply(Decision(approved), FALSE, NoScore,
                                            interaction_id, clock[2], <<>>)
                      /\ now' = clock[2]

\* Interaction.tenant_id == self.tenant.id, Interaction.approval_status == "pending"
IsPending_any_status(row, tenant) == row.tenant_id = tenant

IsPending(row, tenant) ==
    row.tenant_id = tenant /\ row.approval_status = "pending"

\* db.query(Agent).filter(Agent.id == interaction.agent_id)
AgentOf_or_any(row) ==
    IF \E a \in AgentRows : a.id = row.agent_id
    THEN { a \in AgentRows : a.id = row.agent_id } ELSE AgentRows

AgentOf(row) == { a \in AgentRows : a.id = row.agent_id }

\* The items of get_pending_approvals for rows from..Len(store), in table
\* order; the four clock readings of row i's score are clock[4i-3..4i].
RECURSIVE PendingItems(_, _, _, _)
PendingItems(store, tenant, clock, from) ==
    IF from > Len(store) THEN <<>>
    ELSE LET row == store[from]
             rest == PendingItems(store, tenant, clock, from + 1)
         IN  IF IsPending(row, tenant) /\ AgentOf(row) # {}
             THEN LET agent == CHOOSE a \in AgentOf(row) : TRUE
                      at == [j \in 1..4 |-> clock[4 * (from - 1) + j]]
                      trust_score == calculate_trust_score(store, agent, tenant, at)
                  IN  << [interaction_id |-> from, agent_id |-> agent.agent_id,
                          overall_score |-> trust_score.overall_score] >> \o rest
             ELSE rest

\* GET /pending-approvals: ValidationLayer.get_pending_approvals.
get_pending_approvals(tenant) ==
    \E clock \in Readings(4 * Len(interactions)) :
      /\ call' = Request("get_pending_approvals", tenant, "", NoId, FALSE, NoOne, NoRow)
      /\ ret' = Reply("ok", FALSE, NoScore, NoId, NoTime,
                      PendingItems(interactions, tenant, clock, 1))
      /\ sent' = <<>>
      /\ now' = clock[4 * Len(interactions)]
      /\ UNCHANGED interactions

\* GET /agents/{agent_id}/trust-score.  time_window is the optional query
\* parameter, in hours; NoWindow is its absence.
NoWindow == -1
TimeWindows == {NoWindow, 24}

\* What the endpoint hands to calculate_trust_score:
\* timedelta(hours=time_window) if time_window else None.
\* _get_interactions then evaluates timedelta(days=time_window) when it is
\* given something truthy: with a timedelta for days that is a TypeError.
WindowRaises(time_window) == time_window # NoWindow /\ time_window # 0

\* get_trust_score: 404 for an agent that is not of the tenant; otherwise the
\* calculator's result is returned (items holds it), unless the call raises.
\* The request's time_window is kept in call.before.
get_trust_score(tenant, agent_id, time_window) ==
    LET found == FindAgent(agent_id, tenant)
    IN  /\ call' = Request("get_trust_score", tenant, agent_id, NoId, FALSE, NoOne,
                           time_window)
        /\ sent' = <<>>
        /\ UNCHANGED interactions
        /\ IF found = {}
           THEN /\ ret' = Reply("not_found", FALSE, NoScore, NoId, NoTime, <<>>)
                /\ UNCHANGED now
           ELSE IF WindowRaises(time_window)
           THEN \E clock \in Readings(1) :
                   /\ ret' = Raised
                   /\ now' = clock[1]
           ELSE \E clock \in Readings(4) :
                   LET agent == CHOOSE a \in found : TRUE
                       trust_score == calculate_trust_score(interactions, agent,
                                                            tenant, clock)
                   IN  /\ ret' = Reply("ok", FALSE, trust_score.overall_score, NoId,
                                       NoTime, << trust_score >>)
                       /\ now' = clock[4]

\* The workers that serve approval requests at the same time, each with its
\* own database session.
Procs == {1, 2}

\* One worker's handle_approval request: where it is (pc), its arguments, the
\* Interaction object as its session loaded it (loaded) and as the request
\* left it after its three assignments (assigned).
ProcState(pc, interaction_id, approved, approver, loaded, assigned) ==
    [pc |-> pc, interaction_id |-> interaction_id, approved |-> approved,
     approver |-> approver, loaded |-> loaded, assigned |-> assigned]

NoObject == <<>>
IdleProc == ProcState("idle", NoId, FALSE, NoOne, NoObject, NoObject)
NoProcs == [p \in Procs |-> IdleProc]

\* No calculator call is being looked at.
NoCalc == [rows |-> <<>>, w |-> <<>>, clock |-> <<>>, done |-> FALSE, out |-> <<>>]

\* No send_telemetry call is being looked at, and no callback handler exists.
NoTelemetry == <<>>
NoHandler == <<>>

\* The endpoint returns the response; the next request can be served.
Return ==
    /\ ~Idle
    /\ call' = NoCall
    /\ ret' = NoReply
    /\ sent' = <<>>
    /\ UNCHANGED <<interactions, now, procs, calc, telemetry, handler, chain_handler>>

\* The tables the workflow can start from, up to the order of their rows: a
\* request treats every row alike whatever its position, so each multiset of
\* rows is listed once, by agent key and risk score.
InitStores ==
    { s \in UNION { [1..n -> InitRows] : n \in 1..MaxInteractions } :
        \A i \in 1..(Len(s) - 1) :
            s[i].agent_id * Scale + s[i].risk_score
               <= s[i + 1].agent_id * Scale + s[i + 1].risk_score }

Init ==
    /\ interactions \in InitStores
    /\ now = 0
    /\ call = NoCall
    /\ ret = NoReply
    /\ sent = <<>>
    /\ procs = NoProcs
    /\ calc = NoCalc
    /\ telemetry = NoTelemetry
    /\ handler = NoHandler
    /\ chain_handler = NoHandler

\* Requests are served one at a time.
Next ==
    \/ /\ Idle
       /\ UNCHANGED <<procs, calc, telemetry, handler, chain_handler>>
       /\ \E agent \in AgentRows, force_approval \in BOOLEAN :
            \E interaction_id \in OwnInteractions(interactions, agent) :
               validate_interaction(agent, interaction_id, force_approval)
    \/ /\ Idle
       /\ UNCHANGED <<procs, calc, telemetry, handler, chain_handler>>
       /\ \E tenant \in Tenants, agent_id \in AgentIds,
            interaction_id \in 0..(Len(interactions) + 1), approved \in BOOLEAN,
            approver \in Approvers :
            handle_approval(tenant, agent_id, interaction_id, approved, approver)
    \/ /\ Idle
       /\ UNCHANGED <<procs, calc, telemetry, handler, chain_handler>>
       /\ \E tenant \in Tenants : get_pending_approvals(tenant)
    \/ /\ Idle
       /\ UNCHANGED <<procs, calc, telemetry, handler, chain_handler>>
       /\ \E tenant \in Tenants, agent_id \in AgentIds, time_window \in TimeWindows :
            get_trust_score(tenant, agent_id, time_window)
    \/ Return

Spec == Init /\ [][Next]_vars

\* ------------------------------------------------- calculator calls
\* One interaction as the calculator reads it.
Record(timestamp, risk_score, behavior_flags, detections) ==
    [timestamp |-> timestamp, risk_score |-> risk_score,
     behavior_flags |-> behavior_flags, detections |-> detections]

\* Interactions a calculator call can be given: a risk score at either end of
\* [0, 1], low, above the high-risk mark, or at a distance of exactly the
\* anomaly threshold from it; stamped a day ahead of the clock, today, or
\* MaxAge days ago; with no signal or with more behavior flags than the
\* penalty can count and one detection.
RecordOptions ==
    { Record(0 - age, risk_score, signals[1], signals[2]) :
        age \in {-1, 0, MaxAge}, risk_score \in {0, 100, 300, 800, 1000},
        signals \in { <<0, 0>>, <<6, 1>> } }

\* Risk scores 0.1, 0.8, 0.75, 0.2 in a row, stamped today.
ExampleRows ==
    << Record(0, 100, 0, 0), Record(0, 800, 0, 0),
       Record(0, 750, 0, 0), Record(0, 200, 0, 0) >>

\* TrustScoreCalculator(db, agent, tenant_id, weights=...): the default
\* weights, and weights whose sum exceeds 1.
WeightConfigs ==
    { weights,
      [risk |-> 1000, consistency |-> 1000, behavior |-> 1000, detection |-> 1000] }

\* calculate_trust_score() on the rows the query returned.
calculate ==
    /\ ~calc.done
    /\ \E clock \in Readings(4) :
         /\ calc' = [calc EXCEPT !.clock = clock, !.done = TRUE,
                                 !.out = TrustScore(calc.rows, calc.w, clock)]
         /\ now' = clock[4]
    /\ UNCHANGED <<interactions, call, ret, sent, procs, telemetry, handler, chain_handler>>

CalcInit ==
    /\ interactions = <<>>
    /\ now = 0
    /\ call = NoCall
    /\ ret = NoReply
    /\ sent = <<>>
    /\ procs = NoProcs
    /\ telemetry = NoTelemetry
    /\ handler = NoHandler
    /\ chain_handler = NoHandler
    /\ \E rows \in {ExampleRows} \cup UNION { [1..n -> RecordOptions] : n \in 0..MaxRecords },
          w \in WeightConfigs :
          calc = [NoCalc EXCEPT !.rows = rows, !.w = w]

CalcNext == calculate

CalcSpec == CalcInit /\ [][CalcNext]_vars

\* ------------------------------------------------- concurrent approvals
\* handle_approval served by two workers at once.  A request runs in three
\* steps, at its two database round trips and the post between them: the
\* queries (validator.py:78-96), the notification (99-104), and the
\* assignments with the commit (107-111).

\* What self.db.commit() writes: the session flushes one UPDATE of the row
\* that sets the columns whose assigned value differs from the value the
\* session loaded; a column assigned the value it already had is left out of
\* the statement.
Flush(row, loaded, assigned) ==
    [row EXCEPT
       !.approval_status = IF assigned.approval_status # loaded.approval_status
                           THEN assigned.approval_status ELSE @,
       !.approved_by = IF assigned.approved_by # loaded.approved_by
                       THEN assigned.approved_by ELSE @,
       !.approval_timestamp = IF assigned.approval_timestamp # loaded.approval_timestamp
                              THEN assigned.approval_timestamp ELSE @]

\* The request arrives and runs its two queries: the session loads the row.
approval_load(p, interaction_id, approved, approver) ==
    /\ procs[p].pc \in {"idle", "done"}
    /\ FindInteraction(interactions, interaction_id,
                       CHOOSE a \in AgentRows : a.id = interactions[interaction_id].agent_id,
                       interactions[interaction_id].tenant_id) # {}
    /\ procs' = [procs EXCEPT ![p] =
                   ProcState("loaded", interaction_id, approved, approver,
                             interactions[interaction_id], interactions[interaction_id])]
    /\ UNCHANGED <<interactions, now, call, ret, sent, calc, telemetry, handler,
                   chain_handler>>

\* The request posts its notification (delivered or not, it goes on).
approval_notify(p) ==
    /\ procs[p].pc = "loaded"
    /\ procs' = [procs EXCEPT ![p].pc = "notified"]
    /\ UNCHANGED <<interactions, now, call, ret, sent, calc, telemetry, handler,
                   chain_handler>>

\* The request assigns the three columns on its object, commits and returns.
approval_commit(p) ==
    /\ procs[p].pc = "notified"
    /\ \E clock \in Readings(1) :
         LET me == procs[p]
             assigned == Resolve(me.loaded, me.approved, me.approver, clock[1])
         IN  /\ interactions' =
                   [interactions EXCEPT ![me.interaction_id] =
                       Flush(@, me.loaded, assigned)]
             /\ procs' = [procs EXCEPT ![p].pc = "done", ![p].assigned = assigned]
             /\ now' = clock[1]
    /\ UNCHANGED <<call, ret, sent, calc, telemetry, handler, chain_handler>>

ConcurrentInit ==
    /\ interactions = << Row(1, 1, 750, "pending") >>
    /\ now = 0
    /\ call = NoCall
    /\ ret = NoReply
    /\ sent = <<>>
    /\ procs = NoProcs
    /\ calc = NoCalc
    /\ telemetry = NoTelemetry
    /\ handler = NoHandler
    /\ chain_handler = NoHandler

ConcurrentNext ==
    \/ \E p \in Procs, interaction_id \in Ids, approved \in BOOLEAN,
          approver \in Approvers :
          approval_load(p, interaction_id, approved, approver)
    \/ \E p \in Procs : approval_notify(p)
    \/ \E p \in Procs : approval_commit(p)

ConcurrentSpec == ConcurrentInit /\ [][ConcurrentNext]_vars

\* ------------------------------------------------- the SDK client
\* The variables of the backend, which the SDK leaves alone.
backend == <<interactions, now, call, ret, sent, procs, calc>>

\* What a caller can put under a required string key of the data dictionary:
\* nothing, None, or a string.
StrFields == {"missing", "none", "str"}

\* An entry of data["interactions"]: a dictionary with its required
\* tool_calls list, or one without it.
InteractionDicts == {"ok", "no_tool_calls"}

\* The data dictionaries send_telemetry is called with; the optional keys
\* (detections, metadata) are left out.
TelemetryDicts ==
    [agent_id : StrFields, session_id : StrFields,
     interactions : UNION { [1..n -> InteractionDicts] :
                               n \in 0..MaxTelemetryInteractions }]

\* TelemetryData(**data) validates: agent_id and session_id are strings and
\* interactions is a list of valid Interaction dictionaries.
MatchesSchema(data) ==
    /\ data.agent_id = "str"
    /\ data.session_id = "str"
    /\ \A i \in 1..Len(data.interactions) : data.interactions[i] = "ok"

\* What self.client.post and the two calls on its response do: a response
\* with a status code, an httpx.RequestError (no connection, timeout), or any
\* other exception (a body that cannot be encoded, a response that is not JSON).
\* Status codes are written as strings.
StatusCodes == {"200", "401", "403", "422", "500"}
PostOutcomes == StatusCodes \cup {"RequestError", "Exception"}

\* The except clauses of send_telemetry: the exception the call raises for a
\* failure inside its try block.  A pydantic.ValidationError raised by
\* TelemetryData(**data) is neither an httpx.HTTPStatusError nor an
\* httpx.RequestError: the last clause takes it.
ExceptClause(failure) ==
    IF failure = "401" THEN "AuthenticationError"
    ELSE IF failure = "422" THEN "ValidationError"
    ELSE "PrecogXError"

\* One send_telemetry call: not yet made.
TelemetryCall(data) ==
    [data |-> data, done |-> FALSE, posted |-> FALSE, response |-> "none",
     raised |-> "none"]

\* PrecogXClient.send_telemetry(data).
send_telemetry ==
    /\ ~telemetry.done
    /\ IF ~MatchesSchema(telemetry.data)
       THEN telemetry' = [telemetry EXCEPT !.done = TRUE,
                             !.raised = ExceptClause("pydantic.ValidationError")]
       ELSE \E outcome \in PostOutcomes :
               telemetry' = [telemetry EXCEPT !.done = TRUE, !.posted = TRUE,
                                !.response = outcome,
                                !.raised = IF outcome = "200" THEN "none"
                                           ELSE ExceptClause(outcome)]
    /\ UNCHANGED <<backend, handler, chain_handler>>

ClientInit ==
    /\ interactions = <<>>
    /\ now = 0
    /\ call = NoCall
    /\ ret = NoReply
    /\ sent = <<>>
    /\ procs = NoProcs
    /\ calc = NoCalc
    /\ telemetry \in { TelemetryCall(data) : data \in TelemetryDicts }
    /\ handler = NoHandler
    /\ chain_handler = NoHandler

ClientNext == send_telemetry

ClientSpec == ClientInit /\ [][ClientNext]_vars

\* ------------------------------------------------- the client-based handler
\* current_interaction is None.
NoInteraction == <<>>

\* What client.send_telemetry does when the handler calls it: it returns
\* ("none" raised) or raises one of the SDK's exceptions.
SendOutcomes == {"none", "AuthenticationError", "ValidationError", "PrecogXError"}

\* The tool outputs on_tool_end is given.
ToolOutputs == {"out"}

\* `except Exception` of _send_telemetry prints the error: nothing a failed
\* send raises leaves the callback.
Propagates_failure(outcome) == outcome # "none"
Propagates(outcome) == FALSE

\* PrecogXCallbackHandler(client, agent_id).  Tool calls are named by the
\* order of their creation; current_interaction is the list of its tool
\* calls, pending_tool_calls the keys of the dictionary in insertion order,
\* tool_output the tool_output field of every ToolCall object made so far
\* (the interaction and the dictionary hold the same objects).  attempts,
\* payload, delivered and failed record the calls of client.send_telemetry:
\* how many, what the last one was given, whether it returned, and whether
\* one has raised so far; raised tells whether the last callback raised.
NewHandler ==
    [current_interaction |-> NoInteraction, pending_tool_calls |-> <<>>,
     tool_output |-> <<>>, attempts |-> 0, payload |-> <<>>,
     delivered |-> FALSE, failed |-> FALSE, raised |-> FALSE]

\* telemetry_data.model_dump(): the tool calls of the interaction with their
\* outputs as they are now.
Dump(h) ==
    [i \in 1..Len(h.current_interaction) |->
        << h.current_interaction[i], h.tool_output[h.current_interaction[i]] >>]

\* _send_telemetry().
_send_telemetry(h, outcome) ==
    IF h.current_interaction = NoInteraction
    THEN h
    ELSE [h EXCEPT !.attempts = @ + 1,
                   !.payload = Dump(h),
                   !.delivered = (outcome = "none"),
                   !.failed = @ \/ outcome # "none",
                   !.raised = Propagates(outcome),
                   !.current_interaction =
                       IF outcome = "none" THEN NoInteraction ELSE @]

\* on_agent_action(action).
on_agent_action ==
    /\ Len(handler.tool_output) < MaxToolCalls
    /\ LET tool_id == Len(handler.tool_output) + 1
       IN  handler' = [handler EXCEPT
                          !.tool_output = Append(@, "none"),
                          !.pending_tool_calls = Append(@, tool_id),
                          !.current_interaction = Append(@, tool_id),
                          !.raised = FALSE]
    /\ UNCHANGED <<backend, telemetry, chain_handler>>

\* on_tool_end(output).
on_tool_end(output, outcome) ==
    /\ handler.attempts < MaxSends
    /\ IF handler.pending_tool_calls = <<>>
       THEN handler' = [handler EXCEPT !.raised = FALSE]
       ELSE LET n == Len(handler.pending_tool_calls)
                tool_id == handler.pending_tool_calls[n]
                popped == [handler EXCEPT
                              !.pending_tool_calls = SubSeq(@, 1, n - 1),
                              !.tool_output[tool_id] = output,
                              !.raised = FALSE]
            IN  handler' =
                   IF popped.pending_tool_calls = <<>>
                         /\ popped.current_interaction # NoInteraction
                   THEN _send_telemetry(popped, outcome)
                   ELSE popped
    /\ UNCHANGED <<backend, telemetry, chain_handler>>

\* on_agent_finish(finish).
on_agent_finish(outcome) ==
    /\ handler.attempts < MaxSends
    /\ handler' =
          IF handler.current_interaction # NoInteraction
          THEN _send_telemetry([handler EXCEPT !.raised = FALSE], outcome)
          ELSE [handler EXCEPT !.raised = FALSE]
    /\ UNCHANGED <<backend, telemetry, chain_handler>>

HandlerInit ==
    /\ interactions = <<>>
    /\ now = 0
    /\ call = NoCall
    /\ ret = NoReply
    /\ sent = <<>>
    /\ procs = NoProcs
    /\ calc = NoCalc
    /\ telemetry = NoTelemetry
    /\ handler = NewHandler
    /\ chain_handler = NoHandler

HandlerNext ==
    \/ on_agent_action
    \/ \E output \in ToolOutputs, outcome \in SendOutcomes : on_tool_end(output, outcome)
    \/ \E outcome \in SendOutcomes : on_agent_finish(outcome)

HandlerSpec == HandlerInit /\ [][HandlerNext]_vars

\* ------------------------------------------------- the emitter-based handler
\* InteractionEvent(agent_id, prompt="", response="", metadata={...}): its
\* tool_calls list is empty, its metadata has neither "chain_of_thought" nor
\* "error".
InteractionEvent ==
    [prompt |-> "", response |-> "", tool_calls |-> <<>>,
     chain_of_thought |-> <<>>, error |-> FALSE]

\* ToolCall(tool_name, parameters, result=None).
ToolCall(tool_name) == [tool_name |-> tool_name, result |-> "none"]

\* The tools a chain runs.
ToolNames == {"search", "lookup"}

\* What emitter.send_interaction does with an event: it posts it, it catches
\* the httpx.HTTPStatusError or httpx.RequestError of the post, or another
\* exception (json.dumps of a payload that is not JSON) leaves it.
EmitOutcomes == {"sent", "HTTPStatusError", "RequestError", "TypeError"}
EmitterRaises(outcome) == outcome \notin {"sent", "HTTPStatusError", "RequestError"}

\* PrecogXCallbackHandler(emitter, agent_id).  _current_interaction is the
\* empty list for None and a list of one event otherwise;
\* _tool_calls_in_progress lists the positions, in the event's tool_calls, of
\* the ToolCall objects it holds.  depth counts the chains that are running,
\* starts the on_chain_start callbacks, sends the calls of
\* emitter.send_interaction; raised tells whether the last callback raised.
NewChainHandler ==
    [_current_interaction |-> <<>>, _tool_calls_in_progress |-> <<>>,
     _chain_of_thought |-> <<>>, depth |-> 0, starts |-> 0, sends |-> 0,
     raised |-> FALSE]

\* on_chain_start(serialized, inputs): a chain, or a sub-chain of the running
\* one, starts.
on_chain_start ==
    /\ chain_handler.depth < MaxDepth
    /\ chain_handler.starts < MaxChains
    /\ chain_handler' = [chain_handler EXCEPT
                            !._current_interaction = << InteractionEvent >>,
                            !._tool_calls_in_progress = <<>>,
                            !._chain_of_thought = <<>>,
                            !.depth = @ + 1,
                            !.starts = @ + 1,
                            !.raised = FALSE]
    /\ UNCHANGED <<backend, telemetry, handler>>

\* on_llm_start(serialized, prompts) with a prompt.
on_llm_start ==
    /\ chain_handler' =
          IF chain_handler._current_interaction # <<>>
          THEN [chain_handler EXCEPT !._current_interaction[1].prompt = "prompt",
                                     !.raised = FALSE]
          ELSE [chain_handler EXCEPT !.raised = FALSE]
    /\ UNCHANGED <<backend, telemetry, handler>>

\* on_llm_end(response) with a generation.
on_llm_end ==
    /\ chain_handler' =
          IF chain_handler._current_interaction # <<>>
          THEN [chain_handler EXCEPT !._current_interaction[1].response = "response",
                                     !.raised = FALSE]
          ELSE [chain_handler EXCEPT !.raised = FALSE]
    /\ UNCHANGED <<backend, telemetry, handler>>

\* on_tool_start(serialized, input_str).
on_tool_start(tool_name) ==
    /\ Len(chain_handler._tool_calls_in_progress) < MaxChainTools
    /\ chain_handler' =
          IF chain_handler._current_interaction # <<>>
          THEN [chain_handler EXCEPT
                   !._current_interaction[1].tool_calls = Append(@, ToolCall(tool_name)),
                   !._tool_calls_in_progress =
                       Append(@, Len(chain_handler._current_interaction[1].tool_calls) + 1),
                   !.raised = FALSE]
          ELSE [chain_handler EXCEPT !.raised = FALSE]
    /\ UNCHANGED <<backend, telemetry, handler>>

\* The tool calls in progress that on_tool_end(output, name) can complete.
Unfinished(h, name) ==
    { k \in 1..Len(h._tool_calls_in_progress) :
        LET tool_call == h._current_interaction[1].tool_calls[h._tool_calls_in_progress[k]]
        IN  tool_call.tool_name = name /\ tool_call.result = "none" }

\* on_tool_end(output, name): the most recent matching one gets the output.
chain_on_tool_end(output, name) ==
    /\ chain_handler' =
          IF Unfinished(chain_handler, name) # {}
          THEN LET k == CHOOSE k \in Unfinished(chain_handler, name) :
                           \A j \in Unfinished(chain_handler, name) : j <= k
                   i == chain_handler._tool_calls_in_progress[k]
               IN  [chain_handler EXCEPT
                       !._current_interaction[1].tool_calls[i].result = output,
                       !.raised = FALSE]
          ELSE [chain_handler EXCEPT !.raised = FALSE]
    /\ UNCHANGED <<backend, telemetry, handler>>

\* on_text(text).
on_text ==
    /\ Len(chain_handler._chain_of_thought) < MaxTexts
    /\ chain_handler' = [chain_handler EXCEPT !._chain_of_thought = Append(@, "text"),
                                              !.raised = FALSE]
    /\ UNCHANGED <<backend, telemetry, handler>>

\* The body of on_chain_end and of on_chain_error (error tells which): the
\* event is completed and sent, then the three fields are reset, unless
\* send_interaction raised.
Finish(h, error, outcome) ==
    IF h._current_interaction = <<>>
    THEN h
    ELSE LET event == [h._current_interaction[1] EXCEPT
                          !.chain_of_thought =
                              IF error \/ h._chain_of_thought = <<>> THEN @
                              ELSE h._chain_of_thought,
                          !.error = error]
         IN  IF EmitterRaises(outcome)
             THEN [h EXCEPT !._current_interaction = << event >>,
                            !.sends = @ + 1, !.raised = TRUE]
             ELSE [h EXCEPT !._current_interaction = <<>>,
                            !._tool_calls_in_progress = <<>>,
                            !._chain_of_thought = <<>>,
                            !.sends = @ + 1]

\* on_chain_end(outputs): the innermost running chain ends.
on_chain_end(outcome) ==
    /\ chain_handler.depth > 0
    /\ chain_handler' =
          Finish([chain_handler EXCEPT !.depth = @ - 1, !.raised = FALSE], FALSE, outcome)
    /\ UNCHANGED <<backend, telemetry, handler>>

\* on_chain_error(error): the innermost running chain fails.
on_chain_error(outcome) ==
    /\ chain_handler.depth > 0
    /\ chain_handler' =
          Finish([chain_handler EXCEPT !.depth = @ - 1, !.raised = FALSE], TRUE, outcome)
    /\ UNCHANGED <<backend, telemetry, handler>>

ChainInit ==
    /\ interactions = <<>>
    /\ now = 0
    /\ call = NoCall
    /\ ret = NoReply
    /\ sent = <<>>
    /\ procs = NoProcs
    /\ calc = NoCalc
    /\ telemetry = NoTelemetry
    /\ handler = NoHandler
    /\ chain_handler = NewChainHandler

ChainNext ==
    \/ on_chain_start
    \/ on_llm_start
    \/ on_llm_end
    \/ \E tool_name \in ToolNames : on_tool_start(tool_name)
    \/ \E output \in ToolOutputs, name \in ToolNames : chain_on_tool_end(output, name)
    \/ on_text
    \/ \E outcome \in EmitOutcomes : on_chain_end(outcome)
    \/ \E outcome \in EmitOutcomes : on_chain_error(outcome)

ChainSpec == ChainInit /\ [][ChainNext]_vars

\* ------------------------------------------------------------------ claims
Decisions == {"approved", "rejected"}
DecisionOf(flag) == IF flag THEN "approved" ELSE "rejected"

\* agent_id names an agent of the tenant.
KnownAgent(agent_id, tenant) ==
    \E a \in AgentRows : a.agent_id = agent_id /\ a.tenant_id = tenant

\* Row i is an interaction of the agent agent_id names and of the tenant.
MatchesInteraction(i, agent_id, tenant) ==
    /\ i \in Ids
    /\ interactions[i].tenant_id = tenant
    /\ \E a \in AgentRows : /\ a.agent_id = agent_id
                            /\ a.tenant_id = tenant
                            /\ interactions[i].agent_id = a.id

ApprovalFields(row) ==
    << row.approval_status, row.approved_by, row.approval_timestamp >>

ListedIds(items) == { items[k].interaction_id : k \in 1..Len(items) }

\* The telemetry pipeline stored the row with approval_status "pending".
StoredPending(row) ==
    [row EXCEPT !.approval_status = "pending", !.approved_by = NoOne,
                !.approval_timestamp = NoTime] \in InitRows

Validated == call.op = "validate_interaction"
Handled == call.op = "handle_approval"
Listed == call.op = "get_pending_approvals"

\* C1: validate_interaction returns requires_approval = (force_approval or
\* overall_score < trust_threshold), status "pending_approval" exactly when
\* requires_approval is true and "approved" otherwise; so a forced call is
\* pending whatever the score, and a score equal to the threshold, unforced,
\* is approved.
C1_ApprovalDecision ==
    Validated =>
        /\ ret.requires_approval = (call.flag \/ ret.overall_score < trust_threshold)
        /\ ret.status = IF ret.requires_approval THEN "pending_approval" ELSE "approved"
        /\ call.flag => ret.status = "pending_approval"
        /\ (~call.flag /\ ret.overall_score = trust_threshold) => ret.status = "approved"

\* An unforced validation whose score equals the threshold was approved.
C1_ThresholdScoreApproved ==
    /\ Validated
    /\ ~call.flag
    /\ ret.overall_score = trust_threshold
    /\ ret.status = "approved"

\* C2: one validate_interaction call sends exactly one score alert when it
\* returns "pending_approval" and no notification when it returns "approved".
C2_OneAlertIffPending ==
    Validated =>
        /\ ret.status = "pending_approval" =>
              (Len(sent) = 1 /\ sent[1].kind = "alert")
        /\ ret.status = "approved" => sent = <<>>

\* An unforced validation with a low score sent its one alert.
C2_LowScoreAlerted ==
    /\ Validated
    /\ ~call.flag
    /\ ret.status = "pending_approval"
    /\ Len(sent) = 1
    /\ sent[1].kind = "alert"

\* C3: handle_approval with an agent_id that names no agent of the current
\* tenant returns status "error", sends no notification and changes no
\* interaction's approval fields.
C3_UnknownAgentRefused ==
    [][ (call'.op = "handle_approval" /\ ~KnownAgent(call'.agent_id, call'.tenant))
        => /\ ret'.status = "error"
           /\ sent' = <<>>
           /\ \A i \in Ids : ApprovalFields(interactions'[i]) = ApprovalFields(interactions[i])
      ]_vars

\* A tenant named another tenant's agent and an existing interaction, and
\* got the error.
C3_CrossTenantAgentRefused ==
    /\ Handled
    /\ ~KnownAgent(call.agent_id, call.tenant)
    /\ \E t \in Tenants : KnownAgent(call.agent_id, t)
    /\ call.interaction_id \in Ids
    /\ ret.status = "error"
    /\ sent = <<>>

\* C4: handle_approval with a known agent and an interaction_id that matches
\* no interaction of that agent and tenant surfaces a not-found failure: it
\* returns no "approved" or "rejected" decision for that interaction_id.
C4_MissingInteractionRefused ==
    ( /\ Handled
      /\ KnownAgent(call.agent_id, call.tenant)
      /\ call.interaction_id # NoId
      /\ ~MatchesInteraction(call.interaction_id, call.agent_id, call.tenant) )
    => ret.status \notin Decisions

\* C5: every handle_approval call whose agent is found sends exactly one
\* resolution notification, approved or rejected as the approved argument
\* says, with or without an interaction id, found or not.
C5_OneResolutionNotification ==
    (Handled /\ KnownAgent(call.agent_id, call.tenant)) =>
        /\ Len(sent) = 1
        /\ sent[1].kind = "resolution"
        /\ sent[1].approved = call.flag

\* A call that named an interaction its agent does not have sent its
\* notification.
C5_NotifiedWithoutInteraction ==
    /\ Handled
    /\ KnownAgent(call.agent_id, call.tenant)
    /\ call.interaction_id # NoId
    /\ ~MatchesInteraction(call.interaction_id, call.agent_id, call.tenant)
    /\ Len(sent) = 1
    /\ sent[1].kind = "resolution"

\* C6, as stated: a second handle_approval for an interaction that was already
\* resolved is accepted (returns a decision) and sends no further resolution
\* notification.
C6_SecondResolutionSilent ==
    (Handled /\ call.before[1] \in Resolved) =>
        /\ ret.status \in Decisions
        /\ sent = <<>>

\* C6, amended: a second handle_approval for an interaction that was already
\* resolved is accepted (returns a decision) and sends one more resolution
\* notification, as the first did.
C6_SecondResolutionNotifies ==
    (Handled /\ call.before[1] \in Resolved) =>
        /\ ret.status = DecisionOf(call.flag)
        /\ Len(sent) = 1
        /\ sent[1].kind = "resolution"
        /\ sent[1].interaction_id = call.interaction_id
        /\ sent[1].approved = call.flag

\* An interaction already resolved was resolved again, the same way, and the
\* notification went out again.
C6_RenotifiedOnRepeat ==
    /\ Handled
    /\ call.before[1] \in Resolved
    /\ call.before[1] = DecisionOf(call.flag)
    /\ ret.status \in Decisions
    /\ Len(sent) = 1

\* C7, as stated: once an interaction's approval_status is "approved" or
\* "rejected", no later operation changes its approval_status, approved_by or
\* approval_timestamp.
C7_ResolvedOnce ==
    [][ \A i \in Ids :
          interactions[i].approval_status \in Resolved
          => ApprovalFields(interactions'[i]) = ApprovalFields(interactions[i])
      ]_vars

\* C7, amended: an interaction's approval fields are changed only by a
\* handle_approval call that names it (validate_interaction and
\* get_pending_approvals never change them), and once its approval_status is
\* "approved" or "rejected" it stays one of the two; a later handle_approval
\* for it can still overwrite the three fields.
C7_OnlyHandleApprovalRewrites ==
    [][ \A i \in Ids :
          /\ ApprovalFields(interactions'[i]) # ApprovalFields(interactions[i])
             => (call'.op = "handle_approval" /\ call'.interaction_id = i)
          /\ interactions[i].approval_status \in Resolved
             => interactions'[i].approval_status \in Resolved
      ]_vars

\* A resolved interaction was given the other decision.
C7_DecisionOverwritten ==
    /\ Handled
    /\ call.before[1] \in Resolved
    /\ call.interaction_id \in Ids
    /\ interactions[call.interaction_id].approval_status \in Resolved
    /\ interactions[call.interaction_id].approval_status # call.before[1]

\* C8: last write wins.  A handle_approval on an interaction an earlier
\* handle_approval resolved is not refused, and the stored approval_status and
\* approved_by are those of this second call.
C8_LastWriteWins ==
    (Handled /\ call.before[1] \in Resolved) =>
        /\ ret.status = DecisionOf(call.flag)
        /\ interactions[call.interaction_id].approval_status = DecisionOf(call.flag)
        /\ interactions[call.interaction_id].approved_by = call.approver

\* ann approved, then bob rejected: the row says rejected by bob.
C8_SecondCallStored ==
    /\ Handled
    /\ call.before = << "approved", "ann" >>
    /\ ~call.flag
    /\ call.approver = "bob"
    /\ interactions[call.interaction_id].approval_status = "rejected"
    /\ interactions[call.interaction_id].approved_by = "bob"

\* C9: round trip.  An interaction handle_approval has resolved (approved or
\* rejected; approved_by records the resolution) is in no list that
\* get_pending_approvals returns afterwards.
C9_ResolvedNotListed ==
    Listed =>
        \A i \in Ids :
            interactions[i].approved_by # NoOne => i \notin ListedIds(ret.items)

\* The tenant listed its pending approvals after one of its interactions,
\* stored pending and owned by an existing agent, had been resolved.
C9_ListedAfterResolution ==
    /\ Listed
    /\ \E i \in Ids :
          /\ interactions[i].tenant_id = call.tenant
          /\ \E a \in AgentRows : a.id = interactions[i].agent_id
          /\ StoredPending(interactions[i])
          /\ interactions[i].approved_by # NoOne
          /\ i \notin ListedIds(ret.items)

\* What get_pending_approvals returns to the tenant in the current state.
PendingNow(tenant) ==
    ListedIds(PendingItems(interactions, tenant,
                           [j \in 1..(4 * Len(interactions)) |-> now], 1))

\* C10: once validate_interaction has returned requires_approval = true for an
\* interaction, get_pending_approvals returns that interaction in every later
\* state until a handle_approval call for it arrives; the state the call
\* returns in is the first of them.
C10_PendingUntilResolved ==
    (Validated /\ ret.requires_approval /\ call.interaction_id # NoId)
    => call.interaction_id \in PendingNow(call.tenant)

\* C11: validate_interaction leaves the interactions table as it was, whatever
\* it returns: no approval_status, approved_by or approval_timestamp (nor any
\* other column) of any row changes, and no row is added or removed.
C11_ValidateWritesNothing ==
    [][call'.op = "validate_interaction" => interactions' = interactions]_vars

\* A validation answered pending_approval with an alert posted, whose
\* interaction is still stored as it was ingested (approval_status "none").
C11_PendingAnswerStoredNone ==
    /\ Validated
    /\ ret.status = "pending_approval"
    /\ Len(sent) = 1
    /\ call.interaction_id # NoId
    /\ interactions[call.interaction_id].approval_status = "none"

\* The rows get_pending_approvals is to list for a tenant: the tenant's rows
\* stored "pending" whose agent is in the agents table.
AwaitingApproval(store, tenant) ==
    { i \in 1..Len(store) : /\ store[i].tenant_id = tenant
                            /\ store[i].approval_status = "pending"
                            /\ \E a \in AgentRows : a.id = store[i].agent_id }

\* C12: get_pending_approvals returns one item for each interaction of the
\* tenant whose approval_status is "pending" and whose agent exists, and no
\* item for any other interaction (resolved, never pending, of another tenant,
\* or of a deleted agent); it changes no record.
C12_ListsExactlyPending ==
    [][call'.op = "get_pending_approvals" =>
         /\ interactions' = interactions
         /\ ListedIds(ret'.items) = AwaitingApproval(interactions, call'.tenant)
         /\ Len(ret'.items) = Cardinality(AwaitingApproval(interactions, call'.tenant))]_vars

\* A listing of one item, while the tenant also has a pending row of a deleted
\* agent and the other row was stored pending.
C12_OrphanSkipped ==
    /\ Listed
    /\ Len(ret.items) = 1
    /\ \E i \in Ids : /\ interactions[i].tenant_id = call.tenant
                      /\ interactions[i].approval_status = "pending"
                      /\ AgentOf(interactions[i]) = {}

C14_StoredTripleOfOneCall ==
    \A i \in Ids :
        (\A p \in Procs : procs[p].pc = "done" /\ procs[p].interaction_id = i) =>
            \E p \in Procs : ApprovalFields(interactions[i]) = ApprovalFields(procs[p].assigned)

\* The factor score the breakdown of a result lists under a name.
FactorScore(out, name) ==
    LET k == CHOOSE j \in 1..Len(out.breakdown) : out.breakdown[j][1] = name
    IN  out.breakdown[k][2]

FactorNames == <<"risk", "consistency", "behavior", "detection">>

\* C15: on an empty interaction set calculate_trust_score returns
\* overall_score 1.0, confidence 0.0, an empty breakdown, no factors, no
\* anomalies and interactions_analyzed 0; and the breakdown is empty in that
\* case only: a non-empty set yields the four factors and interactions_analyzed
\* equal to the number of records.
C15_EmptyIffNoInteractions ==
    calc.done =>
        /\ calc.rows = <<>> =>
             /\ calc.out.overall_score = Scale
             /\ calc.out.confidence = 0
             /\ calc.out.breakdown = <<>>
             /\ calc.out.factors = <<>>
             /\ calc.out.anomalies = <<>>
             /\ calc.out.interactions_analyzed = 0
        /\ calc.rows # <<>> =>
             /\ [j \in 1..Len(calc.out.breakdown) |-> calc.out.breakdown[j][1]] = FactorNames
             /\ calc.out.interactions_analyzed = Len(calc.rows)

\* A call that was given no interaction and answered the neutral score.
C15_NoInteractionsScored ==
    /\ calc.done
    /\ calc.rows = <<>>
    /\ calc.out.overall_score = Scale
    /\ calc.out.breakdown = <<>>

\* The weighted sum of the four factor scores of a result, under weights w.
WeightedSum(out, w) ==
    (w.risk * FactorScore(out, "risk")
     + w.consistency * FactorScore(out, "consistency")
     + w.behavior * FactorScore(out, "behavior")
     + w.detection * FactorScore(out, "detection")) \div Scale

\* C16: for every weight configuration (weights whose sum exceeds 1 included)
\* and every non-empty record set, overall_score is the weighted sum of the
\* four factor scores brought into [0, 1]: the sum when it lies in [0, 1], 1
\* when it is above, 0 when it is below.
C16_OverallIsClampedSum ==
    (calc.done /\ calc.rows # <<>>) =>
        /\ calc.out.overall_score >= 0
        /\ calc.out.overall_score <= Scale
        /\ calc.out.overall_score =
              IF WeightedSum(calc.out, calc.w) > Scale THEN Scale
              ELSE IF WeightedSum(calc.out, calc.w) < 0 THEN 0
              ELSE WeightedSum(calc.out, calc.w)

\* A result under weights that sum to 4 whose weighted sum is above 1.
C16_HeavyWeightsClamped ==
    /\ calc.done
    /\ calc.rows # <<>>
    /\ calc.w.risk + calc.w.consistency + calc.w.behavior + calc.w.detection > Scale
    /\ WeightedSum(calc.out, calc.w) > Scale
    /\ calc.out.overall_score = Scale

\* C17: for every non-empty record set whose risk scores lie in [0, 1] and
\* whose counts are non-negative, whatever the timestamps relative to the
\* clock, each of the four factor scores of the breakdown and the confidence
\* lie in [0, 1].
C17_FactorsWithinUnit ==
    (calc.done /\ calc.rows # <<>>) =>
        /\ \A j \in 1..Len(calc.out.breakdown) :
              calc.out.breakdown[j][2] >= 0 /\ calc.out.breakdown[j][2] <= Scale
        /\ calc.out.confidence >= 0
        /\ calc.out.confidence <= Scale

\* The rows with the risk score of row k raised to r, all else equal.
RiskRaised(rows, k, r) == [rows EXCEPT ![k].risk_score = r]

\* The raises of one record's risk score that the record sets allow.
RiskRaises(rows) ==
    { <<k, r>> \in (1..Len(rows)) \X {100, 300, 800, 1000} : r > rows[k].risk_score }

\* C18 as stated: raising one record's risk score, all other records and the
\* clock readings unchanged, strictly lowers the risk factor score and does
\* not raise overall_score.
C18_RaisedRiskNeverHelps ==
    (calc.done /\ calc.rows # <<>>) =>
        \A kr \in RiskRaises(calc.rows) :
            LET alt == TrustScore(RiskRaised(calc.rows, kr[1], kr[2]), calc.w, calc.clock)
            IN  /\ FactorScore(alt, "risk") < FactorScore(calc.out, "risk")
                /\ alt.overall_score <= calc.out.overall_score

\* C18 amended: raising one record's risk score, all else equal, strictly
\* lowers the risk factor score; it does not raise overall_score when it does
\* not raise the consistency factor score.
C18_RaisedRiskLowersRiskFactor ==
    (calc.done /\ calc.rows # <<>>) =>
        \A kr \in RiskRaises(calc.rows) :
            LET alt == TrustScore(RiskRaised(calc.rows, kr[1], kr[2]), calc.w, calc.clock)
            IN  /\ FactorScore(alt, "risk") < FactorScore(calc.out, "risk")
                /\ FactorScore(alt, "consistency") <= FactorScore(calc.out, "consistency")
                      => alt.overall_score <= calc.out.overall_score

\* A result that a raise of one record's risk score improves: the risk factor
\* score falls and overall_score rises with the consistency factor score.
C18_RaisedRiskRaisesOverall ==
    /\ calc.done
    /\ calc.rows # <<>>
    /\ \E kr \in RiskRaises(calc.rows) :
          LET alt == TrustScore(RiskRaised(calc.rows, kr[1], kr[2]), calc.w, calc.clock)
          IN  /\ FactorScore(alt, "risk") < FactorScore(calc.out, "risk")
              /\ FactorScore(alt, "consistency") > FactorScore(calc.out, "consistency")
              /\ alt.overall_score > calc.out.overall_score

\* The rows, each d days older: the most recent record is d days older and
\* the number of records is the same.
Aged(rows, d) == [k \in 1..Len(rows) |-> [rows[k] EXCEPT !.timestamp = @ - d]]

\* C19: with the number of records held fixed, the confidence does not
\* increase as the most recent record gets older: each further day of age
\* leaves it equal or lower.
C19_ConfidenceFallsWithAge ==
    (calc.done /\ calc.rows # <<>>) =>
        /\ Confidence(Aged(calc.rows, 0), calc.clock[4]) = calc.out.confidence
        /\ \A d \in 0..(MaxAge + MaxAge) :
              Confidence(Aged(calc.rows, d + 1), calc.clock[4])
                 <= Confidence(Aged(calc.rows, d), calc.clock[4])

\* A result with a positive confidence that is lower when its records are
\* MaxAge days older.
C19_OlderIsLessConfident ==
    /\ calc.done
    /\ calc.rows # <<>>
    /\ calc.out.confidence > 0
    /\ Confidence(Aged(calc.rows, MaxAge), calc.clock[4]) < calc.out.confidence

\* The positions (of the later record) of the adjacent pairs whose risk scores
\* differ by more than the anomaly threshold.
Jumps(rows) ==
    { k \in 2..Len(rows) :
        \/ rows[k].risk_score - rows[k - 1].risk_score > anomaly_threshold
        \/ rows[k - 1].risk_score - rows[k].risk_score > anomaly_threshold }

\* The j-th jump in the order of the records.
JumpAt(rows, j) ==
    CHOOSE k \in Jumps(rows) : Cardinality({ m \in Jumps(rows) : m <= k }) = j

\* C20: the anomaly list has one entry, in the order of the records, for each
\* adjacent pair whose risk scores differ by strictly more than
\* anomaly_threshold, and none for any other pair; the entry carries the later
\* record's timestamp, both risk scores and the signed delta (later minus
\* earlier).  With threshold 0.5, the risk scores 0.1, 0.8, 0.75, 0.2 give two
\* anomalies: +0.7 at the second record and -0.55 at the fourth.
C20_AnomalyPerJump ==
    calc.done =>
        /\ Len(calc.out.anomalies) = Cardinality(Jumps(calc.rows))
        /\ \A j \in 1..Len(calc.out.anomalies) :
              LET k == JumpAt(calc.rows, j)
                  a == calc.out.anomalies[j]
              IN  /\ a.timestamp = calc.rows[k].timestamp
                  /\ a.risk_score = calc.rows[k].risk_score
                  /\ a.prev_risk_score = calc.rows[k - 1].risk_score
                  /\ a.delta = calc.rows[k].risk_score - calc.rows[k - 1].risk_score
        /\ calc.rows = ExampleRows =>
              /\ Len(calc.out.anomalies) = 2
              /\ calc.out.anomalies[1].delta = 700
              /\ calc.out.anomalies[2].delta = -550

\* The result for the risk scores 0.1, 0.8, 0.75, 0.2: two anomalies.
C20_ExampleTwoAnomalies ==
    /\ calc.done
    /\ calc.rows = ExampleRows
    /\ Len(calc.out.anomalies) = 2
    /\ calc.out.anomalies[2].prev_risk_score = 750

\* C21: within one calculate_trust_score call the clock is sampled once: the
\* risk, behavior and detection factors and the confidence are computed from
\* one instant, the first one read, even if the clock advances during the
\* call; so the result is the one a clock standing at that instant gives.
C21_OneInstantPerCall ==
    (calc.done /\ calc.rows # <<>>) =>
        calc.out = TrustScore(calc.rows, calc.w, [j \in 1..4 |-> calc.clock[1]])

\* The agent's own interactions of the tenant whose timestamp lies within the
\* last h hours at day t (all of them for NoWindow); a day is 24 hours.
OwnRowsWithin(store, agent_id, tenant, h, t) ==
    { i \in 1..Len(store) :
        /\ store[i].tenant_id = tenant
        /\ \E a \in AgentRows : /\ a.agent_id = agent_id /\ a.tenant_id = tenant
                                /\ a.id = store[i].agent_id
        /\ h # NoWindow => store[i].timestamp * 24 >= t * 24 - h }

\* C22: the trust-score endpoint called for an agent of the tenant with
\* time_window = h answers with a score result computed from exactly the
\* agent's interactions whose timestamp lies within the last h hours, and
\* called without time_window from the agent's full history.
C22_WindowedScoreReturned ==
    (call.op = "get_trust_score" /\ KnownAgent(call.agent_id, call.tenant)) =>
        /\ ret.status = "ok"
        /\ Len(ret.items) = 1
        /\ \E t \in {now - 1, now} :
              ret.items[1].interactions_analyzed =
                 Cardinality(OwnRowsWithin(interactions, call.agent_id, call.tenant,
                                           call.before, t))

\* The rows of the store that are interactions of the agent (by key) in the
\* tenant, in table order.
RECURSIVE OwnRows(_, _, _)
OwnRows(store, agent, tenant) ==
    IF store = <<>> THEN <<>>
    ELSE (IF Head(store).agent_id = agent.id /\ Head(store).tenant_id = tenant
          THEN << Head(store) >> ELSE <<>>) \o OwnRows(Tail(store), agent, tenant)

\* The scores the agent's own interactions give, for the clock readings a
\* request that ends at day `now` can have taken.
OwnScores(store, agent, tenant) ==
    { OverallScore(OwnRows(store, agent, tenant), weights, clock) :
        clock \in [1..4 -> {now - 1, now}] }

\* C24: the trust score validate_interaction and get_pending_approvals compute
\* for an agent of a tenant depends only on that agent's own interactions in
\* that tenant: it is the score of those interactions alone, whatever other
\* agents' or tenants' interactions the store holds.
C24_ScoreOfOwnInteractions ==
    /\ Validated =>
         \A a \in AgentRows :
            (a.agent_id = call.agent_id /\ a.tenant_id = call.tenant) =>
               ret.overall_score \in OwnScores(interactions, a, call.tenant)
    /\ Listed =>
         \A k \in 1..Len(ret.items) :
            \A a \in AgentRows :
               a.agent_id = ret.items[k].agent_id =>
                  ret.items[k].overall_score \in OwnScores(interactions, a, call.tenant)

\* C25: from a store whose unresolved interactions have approved_by and
\* approval_timestamp unset, in every reachable state an interaction has
\* approved_by and approval_timestamp set if and only if its approval_status
\* is "approved" or "rejected"; and right after a handle_approval call on an
\* interaction it found has written and returned, the approval_status is
\* "approved" iff its approved was true, and approved_by is its approver.
C25_ApprovalFieldsSetIffResolved ==
    [][/\ \A i \in 1..Len(interactions') :
             IF interactions'[i].approval_status \in {"approved", "rejected"}
             THEN /\ interactions'[i].approved_by # NoOne
                  /\ interactions'[i].approval_timestamp # NoTime
             ELSE /\ interactions'[i].approved_by = NoOne
                  /\ interactions'[i].approval_timestamp = NoTime
       /\ \A p \in Procs :
             (procs[p].pc = "notified" /\ procs'[p].pc = "done") =>
                 /\ interactions'[procs[p].interaction_id].approval_status = "approved"
                       <=> procs[p].approved
                 /\ interactions'[procs[p].interaction_id].approved_by
                       = procs[p].approver]_vars

\* A row without its three approval fields.
Unapproved(row) ==
    [row EXCEPT !.approval_status = "", !.approved_by = NoOne,
                !.approval_timestamp = NoTime]

\* C27: handle_approval changes at most one record, and of it the approval
\* fields only: the interaction whose id is interaction_id and that belongs to
\* the named agent and the tenant.  Every other interaction is unchanged; when
\* interaction_id is omitted or matches no interaction of that agent and
\* tenant, no record changes; no row is added or removed.
C27_OnlyTheNamedInteractionChanges ==
    [][call'.op = "handle_approval" =>
         /\ Len(interactions') = Len(interactions)
         /\ \A i \in Ids :
               /\ Unapproved(interactions'[i]) = Unapproved(interactions[i])
               /\ interactions'[i] # interactions[i] =>
                     /\ i = call'.interaction_id
                     /\ MatchesInteraction(i, call'.agent_id, call'.tenant)]_vars

\* An approval by a known agent that names the row of a deleted agent: the
\* call returned its decision and the row is still pending, unapproved.
C27_OtherAgentsRowUntouched ==
    /\ Handled
    /\ ret.status = "approved"
    /\ call.interaction_id \in Ids
    /\ ~MatchesInteraction(call.interaction_id, call.agent_id, call.tenant)
    /\ interactions[call.interaction_id].approval_status = "pending"
    /\ interactions[call.interaction_id].approved_by = NoOne

\* C28: the alert carries the Approve/Reject actions if and only if
\* overall_score < 0.7, the fixed constant, whatever force_approval and the
\* workflow's threshold: an alert sent for a forced pending_approval decision
\* on a score of 0.7 or more carries no actions.
C28_ActionsIffBelowLiteral ==
    Validated =>
        \A k \in 1..Len(sent) :
            sent[k].kind = "alert" => (sent[k].actions <=> ret.overall_score < 700)

\* A forced validation of a score of at least 0.7: pending_approval, one alert,
\* no actions on it.
C28_ForcedAlertWithoutActions ==
    /\ Validated
    /\ call.flag
    /\ ret.status = "pending_approval"
    /\ ret.overall_score >= 700
    /\ Len(sent) = 1
    /\ ~sent[1].actions

\* C23: send_telemetry raises ValidationError when the data does not match the
\* TelemetryData schema, and then posts nothing; a 401 response raises
\* AuthenticationError, a 422 response raises ValidationError, and every
\* other failure raises PrecogXError.
C23_ErrorsOfSendTelemetry ==
    telemetry # NoTelemetry /\ telemetry.done =>
        /\ ~MatchesSchema(telemetry.data) =>
              telemetry.raised = "ValidationError" /\ ~telemetry.posted
        /\ telemetry.response = "401" => telemetry.raised = "AuthenticationError"
        /\ telemetry.response = "422" => telemetry.raised = "ValidationError"
        /\ telemetry.response \in PostOutcomes \ {"200", "401", "422"} =>
              telemetry.raised = "PrecogXError"

\* The tool calls named by a model_dump() payload.
ToolCallsOf(payload) == [i \in 1..Len(payload) |-> payload[i][1]]

\* s is the beginning of t.
IsPrefix(s, t) == Len(s) <= Len(t) /\ SubSeq(t, 1, Len(s)) = s

\* The callback of this step called client.send_telemetry.
Sends == handler'.attempts = handler.attempts + 1

\* C26: a failure of client.send_telemetry never leaves on_tool_end or
\* on_agent_finish; a failed send keeps current_interaction, so that the next
\* send transmits its tool calls again; current_interaction becomes None only
\* with a send that succeeded.
C26_FailedSendKeptAndRetried ==
    [][ /\ ~handler'.raised
        /\ Sends /\ ~handler'.delivered =>
              /\ handler'.current_interaction = handler.current_interaction
              /\ handler'.current_interaction # NoInteraction
              /\ ToolCallsOf(handler'.payload) = handler'.current_interaction
        /\ Sends /\ handler.attempts > 0 /\ ~handler.delivered =>
              IsPrefix(ToolCallsOf(handler.payload), ToolCallsOf(handler'.payload))
        /\ handler.current_interaction # NoInteraction
              /\ handler'.current_interaction = NoInteraction =>
              Sends /\ handler'.delivered
      ]_vars

\* A send failed, and the send after it delivered the same interaction with
\* one more tool call.
C26_RetryDelivered ==
    /\ handler # NoHandler
    /\ handler.failed
    /\ handler.attempts = 2
    /\ handler.delivered
    /\ Len(handler.payload) = 2
    /\ handler.current_interaction = NoInteraction

\* C29: while every send succeeds, pending_tool_calls is empty whenever
\* current_interaction is None, and every pending tool call belongs to the
\* current interaction: none is left over from an interaction already sent.
C29_NoPendingWithoutInteraction ==
    handler # NoHandler /\ ~handler.failed =>
        /\ handler.current_interaction = NoInteraction =>
              handler.pending_tool_calls = <<>>
        /\ \A i \in 1..Len(handler.pending_tool_calls) :
              \E j \in 1..Len(handler.current_interaction) :
                 handler.current_interaction[j] = handler.pending_tool_calls[i]

\* C30: over properly nested chains, emitter.send_interaction is called once
\* for every on_chain_start: when the outermost chain ends there are as many
\* sends as starts and, its own send having returned, _current_interaction is
\* None; and a chain starts with no tool call and no chain-of-thought text of
\* an earlier chain.
C30_OneSendPerChain ==
    [][ /\ chain_handler.depth = 1 /\ chain_handler'.depth = 0 =>
              /\ chain_handler'.sends = chain_handler'.starts
              /\ ~chain_handler'.raised =>
                    chain_handler'._current_interaction = <<>>
        /\ chain_handler'.starts = chain_handler.starts + 1 =>
              /\ chain_handler'._current_interaction = << InteractionEvent >>
              /\ chain_handler'._tool_calls_in_progress = <<>>
              /\ chain_handler'._chain_of_thought = <<>>
      ]_vars

====
